---- MODULE Spec2Model ----
(***************************************************************************)
(* The WRPLL divider search of tools/hsw_compute_wrpll.c: the budget       *)
(* selector, the best-triplet update, the three nested enumeration loops   *)
(* of wrpll_compute_rnp and the table-driven harness in main.              *)
(*                                                                         *)
(* TLC's integers are 32-bit, while wrpll_update_rnp computes in uint64_t. *)
(* A uint64_t value is therefore kept as four 16-bit limbs, least          *)
(* significant first, followed by a fifth component that is 1 as soon as   *)
(* some operation on the way to the value lost bits (the C value wrapped). *)
(* The limbs are what the C program holds; the fifth component only        *)
(* observes it.                                                            *)
(***************************************************************************)
EXTENDS Integers, Sequences, FiniteSets, TLC

\* ------------------------------------------------------------ constants
LC_FREQ == 2700
LC_FREQ_2K == LC_FREQ * 2000

P_MIN == 2
P_MAX == 64
P_INC == 2

REF_MIN == 48
REF_MAX == 400
VCO_MIN == 2400
VCO_MAX == 4800

\* ----------------------------------------------------- machine integers
\* The limb base, 2^16.
LIMB == 65536

\* Mutant of u64: the values are declared uint32_t.
u64_as_uint32(l0, l1, l2, l3, cy, o) ==
  <<l0, l1, 0, 0, IF cy # 0 \/ l2 # 0 \/ l3 # 0 THEN 1 ELSE o>>

\* A uint64_t from its limbs, the carry out of the top limb and the loss
\* flag inherited from the operands.
u64(l0, l1, l2, l3, cy, o) ==
  <<l0, l1, l2, l3, IF cy # 0 THEN 1 ELSE o>>

\* An unsigned (32-bit) value from its limbs: what is above bit 31 is lost.
u32(l0, l1, l2, l3, cy, o) ==
  <<l0, l1, 0, 0, IF cy # 0 \/ l2 # 0 \/ l3 # 0 THEN 1 ELSE o>>

\* Conversion of a non-negative int to uint64_t.
U64(n) == <<n % LIMB, n \div LIMB, 0, 0, 0>>

\* x * k in uint64_t, for a factor k < 2^15.
Mul(x, k) ==
  LET t0 == x[1] * k
      t1 == x[2] * k + t0 \div LIMB
      t2 == x[3] * k + t1 \div LIMB
      t3 == x[4] * k + t2 \div LIMB
  IN u64(t0 % LIMB, t1 % LIMB, t2 % LIMB, t3 % LIMB, t3 \div LIMB, x[5])

\* x * k in unsigned, for a factor k < 2^15.
Mul32(x, k) ==
  LET t0 == x[1] * k
      t1 == x[2] * k + t0 \div LIMB
      t2 == x[3] * k + t1 \div LIMB
      t3 == x[4] * k + t2 \div LIMB
  IN u32(t0 % LIMB, t1 % LIMB, t2 % LIMB, t3 % LIMB, t3 \div LIMB, x[5])

\* x < y on uint64_t.
Lt(x, y) ==
  IF x[4] # y[4] THEN x[4] < y[4]
  ELSE IF x[3] # y[3] THEN x[3] < y[3]
  ELSE IF x[2] # y[2] THEN x[2] < y[2]
  ELSE x[1] < y[1]

\* x - y in uint64_t (modulo 2^64; a borrow out of the top limb is a wrap).
Sub(x, y) ==
  LET d0 == x[1] - y[1]
      b0 == IF d0 < 0 THEN 1 ELSE 0
      d1 == x[2] - y[2] - b0
      b1 == IF d1 < 0 THEN 1 ELSE 0
      d2 == x[3] - y[3] - b1
      b2 == IF d2 < 0 THEN 1 ELSE 0
      d3 == x[4] - y[4] - b2
      b3 == IF d3 < 0 THEN 1 ELSE 0
  IN u64(d0 % LIMB, d1 % LIMB, d2 % LIMB, d3 % LIMB, b3,
         IF y[5] # 0 THEN 1 ELSE x[5])

ABS_DIFF(a, b) == IF Lt(b, a) THEN Sub(a, b) ELSE Sub(b, a)

\* Whether the value was computed without losing bits.
Exact(x) == x[5] = 0

\* ------------------------------------------------------ budget selector
Budget0 ==
  { 25175000, 25200000, 27000000, 27027000, 37762500, 37800000, 40500000,
    40541000, 54000000, 54054000, 59341000, 59400000, 72000000, 74176000,
    74250000, 81000000, 81081000, 89012000, 89100000, 108000000, 108108000,
    111264000, 111375000, 148352000, 148500000, 162000000, 162162000,
    222525000, 222750000, 296703000, 297000000 }
Budget1500 == { 233500000, 245250000, 247750000, 253250000, 298000000 }
Budget2000 == { 169128000, 169500000, 179500000, 202000000 }
Budget4000 ==
  { 256250000, 262500000, 270000000, 272500000, 273750000, 280750000,
    281250000, 286000000, 291750000 }
Budget5000 == { 267250000, 268500000 }

\* Mutant of wrpll_get_budget_for_freq: the budget-0 cases fall to the default.
budget_without_zero_tier(clk) ==
  IF clk \in Budget1500 THEN 1500
  ELSE IF clk \in Budget2000 THEN 2000
  ELSE IF clk \in Budget4000 THEN 4000
  ELSE IF clk \in Budget5000 THEN 5000
  ELSE 1000

wrpll_get_budget_for_freq(clk) ==
  IF clk \in Budget0 THEN 0
  ELSE IF clk \in Budget1500 THEN 1500
  ELSE IF clk \in Budget2000 THEN 2000
  ELSE IF clk \in Budget4000 THEN 4000
  ELSE IF clk \in Budget5000 THEN 5000
  ELSE 1000

\* --------------------------------------------------- best-triplet update
rnp(pp, nn, rr) == [p |-> pp, n2 |-> nn, r2 |-> rr]

\* struct wrpll_rnp best = { 0, 0, 0 }
NoBest == rnp(0, 0, 0)

\* freq2k = clock / 100
Freq2k(clk) == U64(clk \div 100)

\* freq2k * budget * p * r2 (a for the candidate, b for best)
BudgetTerm(f, bud, pp, rr) == Mul(Mul(Mul(f, bud), pp), rr)

\* freq2k * p * r2
ClockTerm(f, pp, rr) == Mul(Mul(f, pp), rr)

\* LC_FREQ_2K * n2, an int times an unsigned: computed in unsigned
RefTerm(nn) == Mul32(U64(LC_FREQ_2K), nn)

\* diff (for the candidate) and diff_best (for best)
Diff(f, t) == ABS_DIFF(ClockTerm(f, t.p, t.r2), RefTerm(t.n2))

\* 1000000 * diff
Scaled(x) == Mul(Mul(x, 1000), 1000)

\* best->p * best->r2 * diff: the unsigned product first, then times uint64_t
Cross(t, x) == Mul(x, t.p * t.r2)

\* Mutant of CloserThanBest: <= for <, a tie replaces best.
CloserOrEqual(best, cand, diff, diff_best) ==
  ~Lt(Cross(cand, diff_best), Cross(best, diff))

\* best->p * best->r2 * diff < p * r2 * diff_best
CloserThanBest(best, cand, diff, diff_best) ==
  Lt(Cross(best, diff), Cross(cand, diff_best))

\* Mutant of HigherThanBest: N / (P * R^2) is compared, p included.
HigherWithP(best, cand) ==
  cand.n2 * best.p * best.r2 * best.r2 > best.n2 * cand.p * cand.r2 * cand.r2

\* n2 * best->r2 * best->r2 > best->n2 * r2 * r2
HigherThanBest(best, cand) ==
  cand.n2 * best.r2 * best.r2 > best.n2 * cand.r2 * cand.r2

\* Mutant of Replace: the second test reads a < c && b >= d, so a candidate
\* over budget overwrites a best within it.
ReplaceSwapped(over_cand, over_best, closer, higher) ==
  IF over_cand /\ over_best THEN closer
  ELSE IF over_cand /\ ~over_best THEN TRUE
  ELSE IF ~over_cand /\ ~over_best THEN higher
  ELSE FALSE

\* Mutant of Replace: the closer triplet wins whatever the budget says.
ReplaceCloser(over_cand, over_best, closer, higher) == closer

\* The if-else chain over (a < c, b < d): whether best is overwritten.
Replace(over_cand, over_best, closer, higher) ==
  IF over_cand /\ over_best THEN closer
  ELSE IF ~over_cand /\ over_best THEN TRUE
  ELSE IF ~over_cand /\ ~over_best THEN higher
  ELSE FALSE

wrpll_update_rnp(f, bud, rr, nn, pp, best) ==
  LET cand == rnp(pp, nn, rr)
  IN IF best.p = 0 THEN cand
     ELSE
     LET a == BudgetTerm(f, bud, pp, rr)
         b == BudgetTerm(f, bud, best.p, best.r2)
         diff == Diff(f, cand)
         diff_best == Diff(f, best)
         c == Scaled(diff)
         d == Scaled(diff_best)
     IN IF Replace(Lt(a, c), Lt(b, d),
                   CloserThanBest(best, cand, diff, diff_best),
                   HigherThanBest(best, cand))
        THEN cand ELSE best

\* ------------------------------------------------------ reference table
\* Each entry is <<clock, p, n2, r2>>, as struct wrpll_tmds_clock.
wrpll_tmds_clock_table ==
  << <<19750000, 38, 25, 18>>, <<20000000, 48, 32, 18>>, <<21000000, 36, 21, 15>>,
     <<21912000, 42, 29, 17>>, <<22000000, 36, 22, 15>>, <<23000000, 36, 23, 15>>,
     <<23500000, 40, 40, 23>>, <<23750000, 26, 16, 14>>, <<24000000, 36, 24, 15>>,
     <<25000000, 36, 25, 15>>, <<25175000, 26, 40, 33>>, <<25200000, 30, 21, 15>>,
     <<26000000, 36, 26, 15>>, <<27000000, 30, 21, 14>>, <<27027000, 18, 100, 111>>,
     <<27500000, 30, 29, 19>>, <<28000000, 34, 30, 17>>, <<28320000, 26, 30, 22>>,
     <<28322000, 32, 42, 25>>, <<28750000, 24, 23, 18>>, <<29000000, 30, 29, 18>>,
     <<29750000, 32, 30, 17>>, <<30000000, 30, 25, 15>>, <<30750000, 30, 41, 24>>,
     <<31000000, 30, 31, 18>>, <<31500000, 30, 28, 16>>, <<32000000, 30, 32, 18>>,
     <<32500000, 28, 32, 19>>, <<33000000, 24, 22, 15>>, <<34000000, 28, 30, 17>>,
     <<35000000, 26, 32, 19>>, <<35500000, 24, 30, 19>>, <<36000000, 26, 26, 15>>,
     <<36750000, 26, 46, 26>>, <<37000000, 24, 23, 14>>, <<37762500, 22, 40, 26>>,
     <<37800000, 20, 21, 15>>, <<38000000, 24, 27, 16>>, <<38250000, 24, 34, 20>>,
     <<39000000, 24, 26, 15>>, <<40000000, 24, 32, 18>>, <<40500000, 20, 21, 14>>,
     <<40541000, 22, 147, 89>>, <<40750000, 18, 19, 14>>, <<41000000, 16, 17, 14>>,
     <<41500000, 22, 44, 26>>, <<41540000, 22, 44, 26>>, <<42000000, 18, 21, 15>>,
     <<42500000, 22, 45, 26>>, <<43000000, 20, 43, 27>>, <<43163000, 20, 24, 15>>,
     <<44000000, 18, 22, 15>>, <<44900000, 20, 108, 65>>, <<45000000, 20, 25, 15>>,
     <<45250000, 20, 52, 31>>, <<46000000, 18, 23, 15>>, <<46750000, 20, 45, 26>>,
     <<47000000, 20, 40, 23>>, <<48000000, 18, 24, 15>>, <<49000000, 18, 49, 30>>,
     <<49500000, 16, 22, 15>>, <<50000000, 18, 25, 15>>, <<50500000, 18, 32, 19>>,
     <<51000000, 18, 34, 20>>, <<52000000, 18, 26, 15>>, <<52406000, 14, 34, 25>>,
     <<53000000, 16, 22, 14>>, <<54000000, 16, 24, 15>>, <<54054000, 16, 173, 108>>,
     <<54500000, 14, 24, 17>>, <<55000000, 12, 22, 18>>, <<56000000, 14, 45, 31>>,
     <<56250000, 16, 25, 15>>, <<56750000, 14, 25, 17>>, <<57000000, 16, 27, 16>>,
     <<58000000, 16, 43, 25>>, <<58250000, 16, 38, 22>>, <<58750000, 16, 40, 23>>,
     <<59000000, 14, 26, 17>>, <<59341000, 14, 40, 26>>, <<59400000, 16, 44, 25>>,
     <<60000000, 16, 32, 18>>, <<60500000, 12, 39, 29>>, <<61000000, 14, 49, 31>>,
     <<62000000, 14, 37, 23>>, <<62250000, 14, 42, 26>>, <<63000000, 12, 21, 15>>,
     <<63500000, 14, 28, 17>>, <<64000000, 12, 27, 19>>, <<65000000, 14, 32, 19>>,
     <<65250000, 12, 29, 20>>, <<65500000, 12, 32, 22>>, <<66000000, 12, 22, 15>>,
     <<66667000, 14, 38, 22>>, <<66750000, 10, 21, 17>>, <<67000000, 14, 33, 19>>,
     <<67750000, 14, 58, 33>>, <<68000000, 14, 30, 17>>, <<68179000, 14, 46, 26>>,
     <<68250000, 14, 46, 26>>, <<69000000, 12, 23, 15>>, <<70000000, 12, 28, 18>>,
     <<71000000, 12, 30, 19>>, <<72000000, 12, 24, 15>>, <<73000000, 10, 23, 17>>,
     <<74000000, 12, 23, 14>>, <<74176000, 8, 100, 91>>, <<74250000, 10, 22, 16>>,
     <<74481000, 12, 43, 26>>, <<74500000, 10, 29, 21>>, <<75000000, 12, 25, 15>>,
     <<75250000, 10, 39, 28>>, <<76000000, 12, 27, 16>>, <<77000000, 12, 53, 31>>,
     <<78000000, 12, 26, 15>>, <<78750000, 12, 28, 16>>, <<79000000, 10, 38, 26>>,
     <<79500000, 10, 28, 19>>, <<80000000, 12, 32, 18>>, <<81000000, 10, 21, 14>>,
     <<81081000, 6, 100, 111>>, <<81624000, 8, 29, 24>>, <<82000000, 8, 17, 14>>,
     <<83000000, 10, 40, 26>>, <<83950000, 10, 28, 18>>, <<84000000, 10, 28, 18>>,
     <<84750000, 6, 16, 17>>, <<85000000, 6, 17, 18>>, <<85250000, 10, 30, 19>>,
     <<85750000, 10, 27, 17>>, <<86000000, 10, 43, 27>>, <<87000000, 10, 29, 18>>,
     <<88000000, 10, 44, 27>>, <<88500000, 10, 41, 25>>, <<89000000, 10, 28, 17>>,
     <<89012000, 6, 90, 91>>, <<89100000, 10, 33, 20>>, <<90000000, 10, 25, 15>>,
     <<91000000, 10, 32, 19>>, <<92000000, 10, 46, 27>>, <<93000000, 10, 31, 18>>,
     <<94000000, 10, 40, 23>>, <<94500000, 10, 28, 16>>, <<95000000, 10, 44, 25>>,
     <<95654000, 10, 39, 22>>, <<95750000, 10, 39, 22>>, <<96000000, 10, 32, 18>>,
     <<97000000, 8, 23, 16>>, <<97750000, 8, 42, 29>>, <<98000000, 8, 45, 31>>,
     <<99000000, 8, 22, 15>>, <<99750000, 8, 34, 23>>, <<100000000, 6, 20, 18>>,
     <<100500000, 6, 19, 17>>, <<101000000, 6, 37, 33>>, <<101250000, 8, 21, 14>>,
     <<102000000, 6, 17, 15>>, <<102250000, 6, 25, 22>>, <<103000000, 8, 29, 19>>,
     <<104000000, 8, 37, 24>>, <<105000000, 8, 28, 18>>, <<106000000, 8, 22, 14>>,
     <<107000000, 8, 46, 29>>, <<107214000, 8, 27, 17>>, <<108000000, 8, 24, 15>>,
     <<108108000, 8, 173, 108>>, <<109000000, 6, 23, 19>>, <<110000000, 6, 22, 18>>,
     <<110013000, 6, 22, 18>>, <<110250000, 8, 49, 30>>, <<110500000, 8, 36, 22>>,
     <<111000000, 8, 23, 14>>, <<111264000, 8, 150, 91>>, <<111375000, 8, 33, 20>>,
     <<112000000, 8, 63, 38>>, <<112500000, 8, 25, 15>>, <<113100000, 8, 57, 34>>,
     <<113309000, 8, 42, 25>>, <<114000000, 8, 27, 16>>, <<115000000, 6, 23, 18>>,
     <<116000000, 8, 43, 25>>, <<117000000, 8, 26, 15>>, <<117500000, 8, 40, 23>>,
     <<118000000, 6, 38, 29>>, <<119000000, 8, 30, 17>>, <<119500000, 8, 46, 26>>,
     <<119651000, 8, 39, 22>>, <<120000000, 8, 32, 18>>, <<121000000, 6, 39, 29>>,
     <<121250000, 6, 31, 23>>, <<121750000, 6, 23, 17>>, <<122000000, 6, 42, 31>>,
     <<122614000, 6, 30, 22>>, <<123000000, 6, 41, 30>>, <<123379000, 6, 37, 27>>,
     <<124000000, 6, 51, 37>>, <<125000000, 6, 25, 18>>, <<125250000, 4, 13, 14>>,
     <<125750000, 4, 27, 29>>, <<126000000, 6, 21, 15>>, <<127000000, 6, 24, 17>>,
     <<127250000, 6, 41, 29>>, <<128000000, 6, 27, 19>>, <<129000000, 6, 43, 30>>,
     <<129859000, 4, 25, 26>>, <<130000000, 6, 26, 18>>, <<130250000, 6, 42, 29>>,
     <<131000000, 6, 32, 22>>, <<131500000, 6, 38, 26>>, <<131850000, 6, 41, 28>>,
     <<132000000, 6, 22, 15>>, <<132750000, 6, 28, 19>>, <<133000000, 6, 34, 23>>,
     <<133330000, 6, 37, 25>>, <<134000000, 6, 61, 41>>, <<135000000, 6, 21, 14>>,
     <<135250000, 6, 167, 111>>, <<136000000, 6, 62, 41>>, <<137000000, 6, 35, 23>>,
     <<138000000, 6, 23, 15>>, <<138500000, 6, 40, 26>>, <<138750000, 6, 37, 24>>,
     <<139000000, 6, 34, 22>>, <<139050000, 6, 34, 22>>, <<139054000, 6, 34, 22>>,
     <<140000000, 6, 28, 18>>, <<141000000, 6, 36, 23>>, <<141500000, 6, 22, 14>>,
     <<142000000, 6, 30, 19>>, <<143000000, 6, 27, 17>>, <<143472000, 4, 17, 16>>,
     <<144000000, 6, 24, 15>>, <<145000000, 6, 29, 18>>, <<146000000, 6, 47, 29>>,
     <<146250000, 6, 26, 16>>, <<147000000, 6, 49, 30>>, <<147891000, 6, 23, 14>>,
     <<148000000, 6, 23, 14>>, <<148250000, 6, 28, 17>>, <<148352000, 4, 100, 91>>,
     <<148500000, 6, 33, 20>>, <<149000000, 6, 48, 29>>, <<150000000, 6, 25, 15>>,
     <<151000000, 4, 19, 17>>, <<152000000, 6, 27, 16>>, <<152280000, 6, 44, 26>>,
     <<153000000, 6, 34, 20>>, <<154000000, 6, 53, 31>>, <<155000000, 6, 31, 18>>,
     <<155250000, 6, 50, 29>>, <<155750000, 6, 45, 26>>, <<156000000, 6, 26, 15>>,
     <<157000000, 6, 61, 35>>, <<157500000, 6, 28, 16>>, <<158000000, 6, 65, 37>>,
     <<158250000, 6, 44, 25>>, <<159000000, 6, 53, 30>>, <<159500000, 6, 39, 22>>,
     <<160000000, 6, 32, 18>>, <<161000000, 4, 31, 26>>, <<162000000, 4, 18, 15>>,
     <<162162000, 4, 131, 109>>, <<162500000, 4, 53, 44>>, <<163000000, 4, 29, 24>>,
     <<164000000, 4, 17, 14>>, <<165000000, 4, 22, 18>>, <<166000000, 4, 32, 26>>,
     <<167000000, 4, 26, 21>>, <<168000000, 4, 46, 37>>, <<169000000, 4, 104, 83>>,
     <<169128000, 4, 64, 51>>, <<169500000, 4, 39, 31>>, <<170000000, 4, 34, 27>>,
     <<171000000, 4, 19, 15>>, <<172000000, 4, 51, 40>>, <<172750000, 4, 32, 25>>,
     <<172800000, 4, 32, 25>>, <<173000000, 4, 41, 32>>, <<174000000, 4, 49, 38>>,
     <<174787000, 4, 22, 17>>, <<175000000, 4, 35, 27>>, <<176000000, 4, 30, 23>>,
     <<177000000, 4, 38, 29>>, <<178000000, 4, 29, 22>>, <<178500000, 4, 37, 28>>,
     <<179000000, 4, 53, 40>>, <<179500000, 4, 73, 55>>, <<180000000, 4, 20, 15>>,
     <<181000000, 4, 55, 41>>, <<182000000, 4, 31, 23>>, <<183000000, 4, 42, 31>>,
     <<184000000, 4, 30, 22>>, <<184750000, 4, 26, 19>>, <<185000000, 4, 37, 27>>,
     <<186000000, 4, 51, 37>>, <<187000000, 4, 36, 26>>, <<188000000, 4, 32, 23>>,
     <<189000000, 4, 21, 15>>, <<190000000, 4, 38, 27>>, <<190960000, 4, 41, 29>>,
     <<191000000, 4, 41, 29>>, <<192000000, 4, 27, 19>>, <<192250000, 4, 37, 26>>,
     <<193000000, 4, 20, 14>>, <<193250000, 4, 53, 37>>, <<194000000, 4, 23, 16>>,
     <<194208000, 4, 23, 16>>, <<195000000, 4, 26, 18>>, <<196000000, 4, 45, 31>>,
     <<197000000, 4, 35, 24>>, <<197750000, 4, 41, 28>>, <<198000000, 4, 22, 15>>,
     <<198500000, 4, 25, 17>>, <<199000000, 4, 28, 19>>, <<200000000, 4, 37, 25>>,
     <<201000000, 4, 61, 41>>, <<202000000, 4, 112, 75>>, <<202500000, 4, 21, 14>>,
     <<203000000, 4, 146, 97>>, <<204000000, 4, 62, 41>>, <<204750000, 4, 44, 29>>,
     <<205000000, 4, 38, 25>>, <<206000000, 4, 29, 19>>, <<207000000, 4, 23, 15>>,
     <<207500000, 4, 40, 26>>, <<208000000, 4, 37, 24>>, <<208900000, 4, 48, 31>>,
     <<209000000, 4, 48, 31>>, <<209250000, 4, 31, 20>>, <<210000000, 4, 28, 18>>,
     <<211000000, 4, 25, 16>>, <<212000000, 4, 22, 14>>, <<213000000, 4, 30, 19>>,
     <<213750000, 4, 38, 24>>, <<214000000, 4, 46, 29>>, <<214750000, 4, 35, 22>>,
     <<215000000, 4, 43, 27>>, <<216000000, 4, 24, 15>>, <<217000000, 4, 37, 23>>,
     <<218000000, 4, 42, 26>>, <<218250000, 4, 42, 26>>, <<218750000, 4, 34, 21>>,
     <<219000000, 4, 47, 29>>, <<220000000, 4, 44, 27>>, <<220640000, 4, 49, 30>>,
     <<220750000, 4, 36, 22>>, <<221000000, 4, 36, 22>>, <<222000000, 4, 23, 14>>,
     <<222525000, 4, 150, 91>>, <<222750000, 4, 33, 20>>, <<227000000, 4, 37, 22>>,
     <<230250000, 4, 29, 17>>, <<233500000, 4, 38, 22>>, <<235000000, 4, 40, 23>>,
     <<238000000, 4, 30, 17>>, <<241500000, 2, 17, 19>>, <<245250000, 2, 20, 22>>,
     <<247750000, 2, 22, 24>>, <<253250000, 2, 15, 16>>, <<256250000, 2, 18, 19>>,
     <<262500000, 2, 31, 32>>, <<267250000, 2, 66, 67>>, <<268500000, 2, 94, 95>>,
     <<270000000, 2, 14, 14>>, <<272500000, 2, 77, 76>>, <<273750000, 2, 57, 56>>,
     <<280750000, 2, 24, 23>>, <<281250000, 2, 23, 22>>, <<286000000, 2, 17, 16>>,
     <<291750000, 2, 26, 24>>, <<296703000, 2, 100, 91>>, <<297000000, 2, 22, 20>>,
     <<298000000, 2, 21, 19>> >>

ARRAY_SIZE == Len(wrpll_tmds_clock_table)

\* ------------------------------------------------------------- bounds
\* wrpll_update_rnp applied on its own: candidates and bests range over
\* the first UnitR2Span + 1 values of r2 and the first UnitPSteps values of p.
UnitR2Span == 3
UnitPSteps == 3
\* How many frequencies of SearchList and of WideList are searched.
NumSearchClocks == 5
NumWideClocks == 2
\* How many table entries main walks.
NumEntries == 2

\* ---------------------------------------------------------------- state
VARIABLES
  pc,      \* where the program is
  i,       \* main: the table index (1-based; 0 outside main)
  clock,   \* wrpll_compute_rnp: the target frequency in Hz
  budget,  \* wrpll_compute_rnp: the budget of clock
  r2, n2, p,  \* the loop variables, that is the candidate
  best,    \* struct wrpll_rnp best
  best0,   \* best as it was before the last wrpll_update_rnp applied on its own
  out,     \* *r2_out, *n2_out, *p_out
  failed,  \* whether igt_fail_on_f has failed
  report,  \* the arguments of the message the last igt_fail_on_f gave, if any
  status   \* the exit status of the process

vars == <<pc, i, clock, budget, r2, n2, p, best, best0, out, failed, report, status>>

harness == <<failed, report, status>>

NoOut == [r2 |-> 0, n2 |-> 0, p |-> 0]
NoReport == <<>>

\* Mutant of R2_FIRST: the loop starts at LC_FREQ * 2 / REF_MAX.
R2_FIRST_inclusive == (LC_FREQ * 2) \div REF_MAX

\* The loop bounds of wrpll_compute_rnp.
R2_FIRST == ((LC_FREQ * 2) \div REF_MAX) + 1
R2_LAST == (LC_FREQ * 2) \div REF_MIN
N2_FIRST(rr) == ((VCO_MIN * rr) \div LC_FREQ) + 1
N2_LAST(rr) == (VCO_MAX * rr) \div LC_FREQ

\* Mutant of IsBypass: the frequency in Hz is compared, not freq2k.
IsBypassHz(clk) == clk = 5400000

\* freq2k == 5400000
IsBypass(clk) == clk \div 100 = 5400000

\* wrpll_compute_rnp(clk, ...) up to the first loop test.
Enter(clk) ==
  /\ clock' = clk
  /\ budget' = wrpll_get_budget_for_freq(clk)
  /\ IF IsBypass(clk)
     THEN /\ out' = [r2 |-> 2, n2 |-> 2, p |-> 1]
          /\ pc' = "ret"
          /\ UNCHANGED <<r2, n2, p, best>>
     ELSE /\ best' = NoBest
          /\ r2' = R2_FIRST
          /\ n2' = N2_FIRST(R2_FIRST)
          /\ p' = P_MIN
          /\ pc' = "loop"
          /\ out' = NoOut

\* A caller other than main calls wrpll_compute_rnp(clock).
DirectCall ==
  /\ pc = "call"
  /\ Enter(clock)
  /\ UNCHANGED <<i, best0, harness>>

\* The body of the innermost loop, and p += P_INC.
LoopBody ==
  /\ pc = "loop"
  /\ r2 <= R2_LAST
  /\ n2 <= N2_LAST(r2)
  /\ p <= P_MAX
  /\ best' = wrpll_update_rnp(Freq2k(clock), budget, r2, n2, p, best)
  /\ p' = p + P_INC
  /\ UNCHANGED <<pc, i, clock, budget, r2, n2, best0, out, harness>>

\* The p loop ends: n2++.
NextN2 ==
  /\ pc = "loop"
  /\ r2 <= R2_LAST
  /\ n2 <= N2_LAST(r2)
  /\ p > P_MAX
  /\ n2' = n2 + 1
  /\ p' = P_MIN
  /\ UNCHANGED <<pc, i, clock, budget, r2, best, best0, out, harness>>

\* The n2 loop ends: r2++.
NextR2 ==
  /\ pc = "loop"
  /\ r2 <= R2_LAST
  /\ n2 > N2_LAST(r2)
  /\ r2' = r2 + 1
  /\ n2' = N2_FIRST(r2 + 1)
  /\ p' = P_MIN
  /\ UNCHANGED <<pc, i, clock, budget, best, best0, out, harness>>

\* The r2 loop ends: the outputs are written and the function returns.
LoopExit ==
  /\ pc = "loop"
  /\ r2 > R2_LAST
  /\ out' = [r2 |-> best.r2, n2 |-> best.n2, p |-> best.p]
  /\ pc' = "ret"
  /\ UNCHANGED <<i, clock, budget, r2, n2, p, best, best0, harness>>

\* wrpll_update_rnp applied on its own to the candidate (r2, n2, p).
ApplyUpdate ==
  /\ pc = "update"
  /\ best' = wrpll_update_rnp(Freq2k(clock), budget, r2, n2, p, best)
  /\ best0' = best
  /\ pc' = "updated"
  /\ UNCHANGED <<i, clock, budget, r2, n2, p, out, harness>>

\* ------------------------------------------------------- specifications
Clock(e) == wrpll_tmds_clock_table[e][1]

\* Nothing of main has run.
NoHarness ==
  /\ i = 0
  /\ failed = FALSE
  /\ report = NoReport
  /\ status = -1

\* wrpll_compute_rnp has not been entered.
NotEntered ==
  /\ budget = 0
  /\ r2 = 0 /\ n2 = 0 /\ p = 0
  /\ best = NoBest
  /\ best0 = NoBest
  /\ out = NoOut

\* wrpll_compute_rnp called on its own: the four frequencies the
\* specification names, a budget-0 frequency no triplet hits exactly, the
\* frequency of the largest budget, and others of the table.
SearchList ==
  <<19750000, 27000000, 108000000, 270000000, 27027000, 268500000,
    298000000, 169128000, 20000000>>
SearchClocks == { SearchList[k] : k \in 1..NumSearchClocks }

\* Frequencies whose freq2k is 5400000.
BypassClocks == {540000000, 540000001, 540000099}

InitSearch ==
  /\ pc = "call"
  /\ clock \in SearchClocks \cup BypassClocks
  /\ NotEntered
  /\ NoHarness

\* wrpll_compute_rnp called on the frequencies with the largest products:
\* the largest budget, the ends of the table and of the supported domain.
WideList == <<268500000, 298000000, 300000000, 19000000, 291750000>>
WideClocks == { WideList[k] : k \in 1..NumWideClocks }

InitWide ==
  /\ pc = "call"
  /\ clock \in WideClocks
  /\ NotEntered
  /\ NoHarness

NextSearch == DirectCall \/ LoopBody \/ NextN2 \/ NextR2 \/ LoopExit

SpecSearch == InitSearch /\ [][NextSearch]_vars

SpecWide == InitWide /\ [][NextSearch]_vars

\* C1: for every entry of wrpll_tmds_clock_table, wrpll_compute_rnp(clock)
\* returns exactly the entry's r2, n2 and p.
TableReproduced ==
  pc = "ret" =>
    \A e \in 1..ARRAY_SIZE :
      Clock(e) = clock =>
        /\ out.p = wrpll_tmds_clock_table[e][2]
        /\ out.n2 = wrpll_tmds_clock_table[e][3]
        /\ out.r2 = wrpll_tmds_clock_table[e][4]

TableReproducedWitness ==
  /\ pc = "ret"
  /\ clock = 19750000
  /\ out = [r2 |-> 18, n2 |-> 25, p |-> 38]

\* C5: for a frequency of the supported domain the returned triplet is a
\* candidate of the enumeration: 5400/400 < r2 <= 5400/48,
\* 2400*r2/2700 < n2 <= 4800*r2/2700 and p in {2, 4, ..., 64}.
InDomain(clk) == clk >= 19000000 /\ clk <= 300000000

RangeValid ==
  (pc = "ret" /\ InDomain(clock)) =>
    /\ out.r2 > 5400 \div 400 /\ out.r2 <= 5400 \div 48
    /\ out.n2 > (2400 * out.r2) \div 2700
    /\ out.n2 <= (4800 * out.r2) \div 2700
    /\ out.p \in { 2 * k : k \in 1..32 }
    /\ out.r2 > 0 /\ out.n2 > 0 /\ out.p > 0

RangeValidWitness ==
  /\ pc = "ret"
  /\ clock = 270000000
  /\ out.r2 = 14 /\ out.n2 = 14 /\ out.p = 2

\* C6: when clock / 100 = 5400000 the result is (r2=2, n2=2, p=1) and the
\* enumeration never ran, with the budget already selected.
BypassResult ==
  (pc = "ret" /\ clock \div 100 = 5400000) =>
    /\ out = [r2 |-> 2, n2 |-> 2, p |-> 1]
    /\ r2 = 0 /\ n2 = 0 /\ p = 0 /\ best = NoBest

BypassWitness ==
  /\ pc = "ret"
  /\ clock = 540000000
  /\ budget = wrpll_get_budget_for_freq(540000000)
  /\ out = [r2 |-> 2, n2 |-> 2, p |-> 1]

\* The candidate the innermost loop body is about to hand to
\* wrpll_update_rnp.
AtBody == pc = "loop" /\ r2 <= R2_LAST /\ n2 <= N2_LAST(r2) /\ p <= P_MAX

\* C7: no value of the search wraps: for every candidate and best the
\* enumeration reaches, a, b, c, d, freq2k*p*r2, diff, diff_best and the two
\* cross products fit 64 bits, and the unsigned products LC_FREQ_2K*n2,
\* best.p*best.r2, p*r2, n2*best.r2*best.r2, best.n2*r2*r2 and VCO_MAX*r2
\* fit 32 bits.
NoWrap ==
  AtBody =>
    LET f == Freq2k(clock)
        cand == rnp(p, n2, r2)
        diff == Diff(f, cand)
        diff_best == Diff(f, best)
    IN /\ Exact(Mul32(U64(VCO_MAX), r2))
       /\ best.p # 0 =>
            /\ Exact(BudgetTerm(f, budget, p, r2))
            /\ Exact(BudgetTerm(f, budget, best.p, best.r2))
            /\ Exact(ClockTerm(f, p, r2))
            /\ Exact(ClockTerm(f, best.p, best.r2))
            /\ Exact(RefTerm(n2))
            /\ Exact(RefTerm(best.n2))
            /\ Exact(diff)
            /\ Exact(diff_best)
            /\ Exact(Scaled(diff))
            /\ Exact(Scaled(diff_best))
            /\ Exact(Cross(best, diff))
            /\ Exact(Cross(cand, diff_best))
            /\ Exact(Mul32(U64(best.p), best.r2))
            /\ Exact(Mul32(U64(p), r2))
            /\ Exact(Mul32(Mul32(U64(n2), best.r2), best.r2))
            /\ Exact(Mul32(Mul32(U64(best.n2), r2), r2))

\* The largest candidate against a best, at the frequency of the largest
\* budget.
NoWrapWitness ==
  /\ AtBody
  /\ clock = 268500000 /\ budget = 5000
  /\ r2 = 112 /\ n2 = 199 /\ p = 64
  /\ best.p # 0

\* 1000000 * |freq2k*p*r2 - 5400000*n2| <= freq2k*budget*p*r2
InBudget(f, bud, t) ==
  ~Lt(BudgetTerm(f, bud, t.p, t.r2), Scaled(Diff(f, t)))

\* t is strictly closer to the target than u: diff/(p*r2) is smaller.
Closer(f, t, u) == Lt(Cross(u, Diff(f, t)), Cross(t, Diff(f, u)))

\* t has the strictly larger n2/r2^2.
HigherRatio(t, u) == t.n2 * u.r2 * u.r2 > u.n2 * t.r2 * t.r2

\* Q holds of every (of some) candidate of the enumeration.
AllCand(Q(_)) ==
  \A rr \in R2_FIRST..R2_LAST :
    \A nn \in N2_FIRST(rr)..N2_LAST(rr) :
      \A k \in 1..32 : Q(rnp(2 * k, nn, rr))

SomeCand(Q(_)) ==
  \E rr \in R2_FIRST..R2_LAST :
    \E nn \in N2_FIRST(rr)..N2_LAST(rr) :
      \E k \in 1..32 : Q(rnp(2 * k, nn, rr))

\* C10: when some candidate is within budget the result is within budget
\* and no candidate within budget has a larger n2/r2^2; when none is, no
\* candidate is closer to the target than the result. And a best within
\* budget is never replaced by one over budget.
FinalBest ==
  (pc = "ret" /\ clock \div 100 # 5400000) =>
    LET f == Freq2k(clock)
        res == rnp(out.p, out.n2, out.r2)
        Within(t) == InBudget(f, budget, t)
        NotHigher(t) == Within(t) => ~HigherRatio(t, res)
        NotCloser(t) == ~Closer(f, t, res)
    IN IF SomeCand(Within)
       THEN Within(res) /\ AllCand(NotHigher)
       ELSE AllCand(NotCloser)

StaysWithin ==
  (AtBody /\ best.p # 0 /\ InBudget(Freq2k(clock), budget, best)) =>
    InBudget(Freq2k(clock), budget,
             wrpll_update_rnp(Freq2k(clock), budget, r2, n2, p, best))

GloballyBest == FinalBest /\ StaysWithin

\* No candidate is within budget (27027000 Hz has budget 0 and no exact
\* triplet) and the result is the closest one.
GloballyBestWitness ==
  /\ pc = "ret"
  /\ clock = 27027000
  /\ out = [r2 |-> 111, n2 |-> 100, p |-> 18]
  /\ ~InBudget(Freq2k(clock), budget, rnp(out.p, out.n2, out.r2))

\* ------------------------------------------- wrpll_update_rnp on its own
\* Frequencies with candidates within their budget among the first values
\* of r2 and p: 286 MHz (budget 4000), 270 MHz (4000), and 135 MHz (1000),
\* which candidates of p = 4 and of p = 6 hit exactly.
UnitClocks == {286000000, 270000000, 135000000}
UnitR2 == R2_FIRST..(R2_FIRST + UnitR2Span)
UnitP == { P_MIN + k * P_INC : k \in 0..(UnitPSteps - 1) }
UnitTriples ==
  UNION { { rnp(pp, nn, rr) : pp \in UnitP, nn \in N2_FIRST(rr)..N2_LAST(rr) }
          : rr \in UnitR2 }

Init ==
  /\ pc = "update"
  /\ clock \in UnitClocks
  /\ budget = wrpll_get_budget_for_freq(clock)
  /\ \E t \in UnitTriples : r2 = t.r2 /\ n2 = t.n2 /\ p = t.p
  /\ best \in UnitTriples \cup {NoBest}
  /\ best0 = NoBest
  /\ out = NoOut
  /\ NoHarness

Next == ApplyUpdate

Spec == Init /\ [][Next]_vars

\* wrpll_update_rnp has been applied to the candidate and a non-sentinel
\* best, now in best0.
Applied == pc = "updated" /\ best0.p # 0
Cand == rnp(p, n2, r2)
CandWithin == InBudget(Freq2k(clock), budget, Cand)
BestWithin == InBudget(Freq2k(clock), budget, best0)

\* C2: with a non-sentinel best, a candidate within budget replaces a best
\* over budget, and a candidate over budget leaves a best within budget.
OneWithinBudget ==
  Applied =>
    /\ (CandWithin /\ ~BestWithin) => best = Cand
    /\ (~CandWithin /\ BestWithin) => best = best0

OneWithinBudgetWitness ==
  /\ Applied
  /\ CandWithin /\ ~BestWithin
  /\ best = Cand /\ Cand # best0

BothOverBudget ==
  (Applied /\ ~CandWithin /\ ~BestWithin) =>
    IF Lt(Mul(Diff(Freq2k(clock), Cand), best0.p * best0.r2),
          Mul(Diff(Freq2k(clock), best0), Cand.p * Cand.r2))
    THEN best = Cand
    ELSE best = best0

\* Another triplet as close as best: best is kept.
BothOverBudgetWitness ==
  /\ Applied
  /\ ~CandWithin /\ ~BestWithin
  /\ Cand # best0 /\ best = best0
  /\ ~Closer(Freq2k(clock), best0, Cand)
  /\ ~Closer(Freq2k(clock), Cand, best0)

\* ---------------------------------------------------------------- main
\* The table is test data handed to the harness: main is run against the
\* table of the source and against tables whose entry differs from it in
\* the expected r2, so that both outcomes of the comparison occur. An
\* entry is read once, when it is compared.
RefEntries(e) ==
  LET t == wrpll_tmds_clock_table[e]
  IN { t, <<t[1], t[2], t[3], t[4] + 1>> }

\* The entries main walks.
TableLen == IF NumEntries < ARRAY_SIZE THEN NumEntries ELSE ARRAY_SIZE

\* The arguments main gives the failure message: (int64_t)ref->clock * 1000,
\* ref->r2, ref->n2, ref->p, r2, n2, p.
FailArgs(ref, o) ==
  <<Mul(U64(ref[1]), 1000), ref[4], ref[3], ref[2], o.r2, o.n2, o.p>>

\* The exit status igt gives a process that failed.
FailStatus == 1

\* Mutant of MainResult: main returns the failure status.
MainResultFailure == FailStatus

\* return 0 at the end of main.
MainResult == 0

\* igt_fail_on_f(cond, args): when cond holds the failure is reported with
\* args and the run counts as failed; the remaining entries are still
\* checked.
igt_fail_on_f(cond, args) ==
  /\ failed' = (failed \/ cond)
  /\ report' = IF cond THEN args ELSE NoReport

\* The exit status of the process: a failed run overrides main's result.
ExitStatus(res) == IF failed THEN FailStatus ELSE res

\* main: i < ARRAY_SIZE holds and wrpll_compute_rnp(ref->clock, ...) is called.
MainCall ==
  /\ pc = "main"
  /\ i <= TableLen
  /\ Enter(Clock(i))
  /\ UNCHANGED <<i, best0, harness>>

\* main: the comparison of the outputs with the entry, and i++.
MainCheck ==
  /\ pc = "ret"
  /\ i >= 1
  /\ \E ref \in RefEntries(i) :
       igt_fail_on_f(ref[4] # out.r2 \/ ref[3] # out.n2 \/ ref[2] # out.p,
                     FailArgs(ref, out))
  /\ i' = i + 1
  /\ pc' = "main"
  /\ UNCHANGED <<clock, budget, r2, n2, p, best, best0, out, status>>

\* main: the loop ends and main returns.
MainReturn ==
  /\ pc = "main"
  /\ i > TableLen
  /\ status' = ExitStatus(MainResult)
  /\ pc' = "exit"
  /\ UNCHANGED <<i, clock, budget, r2, n2, p, best, best0, out, failed, report>>

InitMain ==
  /\ pc = "main"
  /\ i = 1
  /\ clock = 0
  /\ NotEntered
  /\ failed = FALSE
  /\ report = NoReport
  /\ status = -1

NextMain ==
  MainCall \/ LoopBody \/ NextN2 \/ NextR2 \/ LoopExit \/ MainCheck \/ MainReturn

SpecMain == InitMain /\ [][NextMain]_vars

\* C8: the exit status is nonzero when some entry differed and zero when
\* every entry matched.
ExitReflectsMismatch ==
  pc = "exit" => (status # 0 <=> failed)

\* A mismatch only at the first entry still ends in a nonzero status.
ExitReflectsMismatchWitness ==
  /\ pc = "exit"
  /\ failed
  /\ report = NoReport
  /\ status # 0

\* C9: a reported failure carries the expected triplet, the computed
\* triplet and the frequency that was passed to wrpll_compute_rnp, in Hz.
ReportExactHz ==
  (pc = "main" /\ report # NoReport) =>
    /\ <<report[1][1], report[1][2], report[1][3], report[1][4]>>
         = <<clock % LIMB, clock \div LIMB, 0, 0>>
    /\ <<report[2], report[3], report[4]>> \in
         { <<ref[4], ref[3], ref[2]>> : ref \in RefEntries(i - 1) }
    /\ <<report[5], report[6], report[7]>> = <<out.r2, out.n2, out.p>>

====
